---- MODULE Spec2Model ----
(***************************************************************************)
(* A model of the Game-of-Life engine of src/src/lib.rs: the Universe      *)
(* struct (width, height, cells, temp_cells), its public operations and    *)
(* the FixedBitSet operations they are written with.                       *)
(*                                                                         *)
(* A FixedBitSet is modelled as a record [length, ones]: its length in     *)
(* bits and the set of the indices of its set bits.  Reading a bit beyond  *)
(* the length yields false; writing one panics.  A panic ends the call     *)
(* where it happens: what was written before it stays written, and         *)
(* status records it.                                                      *)
(*                                                                         *)
(* temp_cells is the scratch buffer of tick().  tick() clears it before it *)
(* writes it and nothing else reads it, so what it holds between two calls *)
(* can never be observed; the state keeps its length, and tick() builds    *)
(* its content from the cleared buffer as the code does.                   *)
(***************************************************************************)
EXTENDS Integers, Sequences, FiniteSets, TLC

\* width, height, cells, temp_cells: the fields of Universe
\* status: "ok", or "panicked" once a call has panicked (the instance is then dead)
\* lastop: the last call, <<name, a, b>>; a, b are the arguments of set_width,
\*         set_height (a) and of the two pattern stamps (row, col), else 0
\* stamp:  <<>>, or <<[before, after, row, col]>>: cells.ones before and after
\*         the pattern stamp at (row, col), or the set_cells call whose list
\*         starts with (row, col), that only tick() calls have followed
\* ticks:  the number of tick() calls since the last other call
VARIABLES width, height, cells, temp_cells, status, lastop, stamp, ticks

vars == <<width, height, cells, temp_cells, status, lastop, stamp, ticks>>

(***************************************************************************)
(* Bounds of the exploration.                                              *)
(***************************************************************************)
\* set_width / set_height are called with 1..MaxDim, and with DefaultHeight + 1
MaxDim == 3
\* cells are edited (toggle, set, stamp, randomize) on grids of at most MaxCells cells
MaxCells == 9
\* set_cells is called with lists of at most MaxList coordinates
MaxList == 2
\* at most MaxTicks consecutive tick() calls are explored
MaxTicks == 4
\* the random source repeats its samples with this period
RandomPeriod == 2
\* the side of the square grid on which a glider is followed
GliderDim == 8
\* the side of the square grid on which a pulsar is followed
PulsarDim == 17
\* a single cell is followed on the grids of 1..SingleDim by 1..SingleDim
SingleDim == 5
\* cell patterns are followed on the grids of 4..PatternDim by 4..PatternDim
PatternDim == 5

(***************************************************************************)
(* Program constants.                                                      *)
(***************************************************************************)
\* u32 arithmetic is modulo 2^32 = HALF32 * HALF32; every sum and product of
\* the sizes explored here stays far below it, so only a subtraction can wrap
HALF32 == 65536
\* let width = 256; let height = 256;
DefaultWidth == 256
DefaultHeight == 256
\* a word of FixedBitSet::as_slice() holds 32 bits (cells() -> *const u32)
BITS == 32

Min(a, b) == IF a < b THEN a ELSE b

(***************************************************************************)
(* FixedBitSet                                                             *)
(***************************************************************************)
\* FixedBitSet::with_capacity(size): size bits, all false
with_capacity(size) == [length |-> size, ones |-> {}]

\* self.cells[idx]: false beyond the length
bit(b, idx) == idx \in b.ones

\* bitset.set(idx, value), for idx < length (the caller checks; beyond it panics)
set(b, idx, value) ==
    [b EXCEPT !.ones = IF value THEN @ \cup {idx} ELSE @ \ {idx}]

\* bitset.set_range(.., false)
set_range_all_false(b) == [b EXCEPT !.ones = {}]

\* as_slice(): the words of the bitset, here whether each word is non-zero
as_slice(b) ==
    LET nblocks == (b.length + BITS - 1) \div BITS
        nonzero == {i \div BITS : i \in b.ones}
    IN  [k \in 1..nblocks |-> IF (k - 1) \in nonzero THEN 1 ELSE 0]

(***************************************************************************)
(* Universe: self is a record [width, height, cells, temp_cells, status].  *)
(***************************************************************************)
Self == [width |-> width, height |-> height, cells |-> cells,
         temp_cells |-> temp_cells, status |-> status]

get_index(self, row, col) == row * self.width + col

get_row_index(self, row) == row * self.width

\* live_neighbor_count without the wrap at the last column
live_neighbor_count_no_east_wrap(self, row, column) ==
    LET north == IF row = 0 THEN self.height - 1 ELSE row - 1
        south == IF row = self.height - 1 THEN 0 ELSE row + 1
        west  == IF column = 0 THEN self.width - 1 ELSE column - 1
        east  == column + 1
        b(r, c) == IF bit(self.cells, get_index(self, r, c)) THEN 1 ELSE 0
    IN  b(north, west) + b(north, column) + b(north, east)
        + b(row, west) + b(row, east)
        + b(south, west) + b(south, column) + b(south, east)

\* live_neighbor_count that also counts the cell itself
live_neighbor_count_with_self(self, row, column) ==
    LET north == IF row = 0 THEN self.height - 1 ELSE row - 1
        south == IF row = self.height - 1 THEN 0 ELSE row + 1
        west  == IF column = 0 THEN self.width - 1 ELSE column - 1
        east  == IF column = self.width - 1 THEN 0 ELSE column + 1
        b(r, c) == IF bit(self.cells, get_index(self, r, c)) THEN 1 ELSE 0
    IN  b(north, west) + b(north, column) + b(north, east)
        + b(row, west) + b(row, column) + b(row, east)
        + b(south, west) + b(south, column) + b(south, east)

\* live_neighbor_count with north wrapping to the row of the cell below
live_neighbor_count_north_is_south(self, row, column) ==
    LET south == IF row = self.height - 1 THEN 0 ELSE row + 1
        north == south
        west  == IF column = 0 THEN self.width - 1 ELSE column - 1
        east  == IF column = self.width - 1 THEN 0 ELSE column + 1
        b(r, c) == IF bit(self.cells, get_index(self, r, c)) THEN 1 ELSE 0
    IN  b(north, west) + b(north, column) + b(north, east)
        + b(row, west) + b(row, east)
        + b(south, west) + b(south, column) + b(south, east)

live_neighbor_count(self, row, column) ==
    LET north == IF row = 0 THEN self.height - 1 ELSE row - 1
        south == IF row = self.height - 1 THEN 0 ELSE row + 1
        west  == IF column = 0 THEN self.width - 1 ELSE column - 1
        east  == IF column = self.width - 1 THEN 0 ELSE column + 1
        b(r, c) == IF bit(self.cells, get_index(self, r, c)) THEN 1 ELSE 0
    IN  b(north, west) + b(north, column) + b(north, east)
        + b(row, west) + b(row, east)
        + b(south, west) + b(south, column) + b(south, east)

\* the match of tick() without its arm (false, 3) => true
next_cell_no_birth(cell, live_neighbors) ==
    IF cell /\ live_neighbors < 2 THEN FALSE
    ELSE IF cell /\ (live_neighbors = 2 \/ live_neighbors = 3) THEN TRUE
    ELSE IF cell /\ live_neighbors > 3 THEN FALSE
    ELSE cell

\* the match of tick() without its arm (true, x) if x > 3 => false
next_cell_no_overpopulation(cell, live_neighbors) ==
    IF cell /\ live_neighbors < 2 THEN FALSE
    ELSE IF cell /\ (live_neighbors = 2 \/ live_neighbors = 3) THEN TRUE
    ELSE IF ~cell /\ live_neighbors = 3 THEN TRUE
    ELSE cell

\* the match of tick(): the next value of a cell from its value and its count
next_cell(cell, live_neighbors) ==
    IF cell /\ live_neighbors < 2 THEN FALSE
    ELSE IF cell /\ (live_neighbors = 2 \/ live_neighbors = 3) THEN TRUE
    ELSE IF cell /\ live_neighbors > 3 THEN FALSE
    ELSE IF ~cell /\ live_neighbors = 3 THEN TRUE
    ELSE cell

\* get_cells(): the tags of the width*height cells, row-major
get_cells(self) ==
    [k \in 1..(self.width * self.height) |->
        IF bit(self.cells, get_index(self, (k - 1) \div self.width, (k - 1) % self.width))
        THEN "Alive" ELSE "Dead"]

\* tick() without its last line, self.cells.clone_from(&self.temp_cells)
tick_without_clone_from(self) ==
    IF self.width * self.height <= self.temp_cells.length THEN self
    ELSE [self EXCEPT !.status = "panicked"]

\* tick(): the scan visits idx = 0, 1, ... in row-major order, reads cells and
\* writes temp_cells; temp_cells.set(idx, _) panics at the first idx that is not
\* below temp_cells.length, before cells is replaced.
tick(self) ==
    LET size    == self.width * self.height
        cleared == set_range_all_false(with_capacity(self.temp_cells.length))
        scanned == Min(size, cleared.length)
        temp    == [cleared EXCEPT !.ones =
                       {idx \in 0..(scanned - 1) :
                           next_cell(bit(self.cells, idx),
                                     live_neighbor_count(self, idx \div self.width,
                                                         idx % self.width))}]
    IN  IF scanned = size
        THEN [self EXCEPT !.cells = temp]
        ELSE [self EXCEPT !.status = "panicked"]

\* new() whose seed is i % 2 == 0 alone
new_seed_even_only ==
    LET size == DefaultWidth * DefaultHeight
    IN  [width |-> DefaultWidth, height |-> DefaultHeight,
         cells |-> [length |-> size, ones |-> {i \in 0..(size - 1) : i % 2 = 0}],
         temp_cells |-> [length |-> with_capacity(size).length],
         status |-> "ok"]

\* Universe::new()
new ==
    LET size == DefaultWidth * DefaultHeight
    IN  [width |-> DefaultWidth, height |-> DefaultHeight,
         cells |-> [length |-> size,
                    ones |-> {i \in 0..(size - 1) : i % 2 = 0 \/ i % 7 = 0}],
         temp_cells |-> [length |-> with_capacity(size).length],
         status |-> "ok"]

\* set_width that keeps the old buffer
set_width_keeps_cells(self, w) == [self EXCEPT !.width = w]

set_width(self, w) ==
    [self EXCEPT !.width = w,
                 !.cells = set_range_all_false(with_capacity(w * self.height))]

set_height(self, h) ==
    [self EXCEPT !.height = h,
                 !.cells = set_range_all_false(with_capacity(self.width * h))]

\* self.cells.set(idx, value) inside an operation: FixedBitSet::set asserts
\* idx < length and panics otherwise; after a panic nothing more is written
cells_set(self, idx, value) ==
    IF self.status # "ok" THEN self
    ELSE IF idx < self.cells.length
         THEN [self EXCEPT !.cells = set(@, idx, value)]
         ELSE [self EXCEPT !.status = "panicked"]

\* toggle_cell that sets the cell instead of inverting it
toggle_cell_sets(self, row, col) == cells_set(self, get_index(self, row, col), TRUE)

toggle_cell(self, row, col) ==
    LET idx        == get_index(self, row, col)
        cell_state == bit(self.cells, idx)
    IN  cells_set(self, idx, ~cell_state)

\* set_cells that returns after the first coordinate of the list
set_cells_first_only(self, list) ==
    IF list = <<>> THEN self
    ELSE cells_set(self, get_index(self, list[1][1], list[1][2]), TRUE)

\* set_cells that toggles each listed cell instead of setting it
RECURSIVE set_cells_toggles(_, _)
set_cells_toggles(self, list) ==
    IF list = <<>> \/ self.status # "ok" THEN self
    ELSE LET idx == get_index(self, list[1][1], list[1][2])
         IN  set_cells_toggles(cells_set(self, idx, ~bit(self.cells, idx)), Tail(list))

\* set_cells(&[(row, col)]): the list is written in order
RECURSIVE set_cells(_, _)
set_cells(self, list) ==
    IF list = <<>> \/ self.status # "ok" THEN self
    ELSE set_cells(cells_set(self, get_index(self, list[1][1], list[1][2]), TRUE),
                   Tail(list))

\* reset_clear that clears temp_cells instead of cells
reset_clear_of_temp_cells(self) ==
    [self EXCEPT !.temp_cells = [length |-> @.length]]

reset_clear(self) == [self EXCEPT !.cells = set_range_all_false(@)]

\* reset_random(): the k-th cell of the row-major scan (idx = k) gets the k-th
\* sample of the source; sample[i] says whether that draw was < 0.5
reset_random(self, sample) ==
    LET size    == self.width * self.height
        written == Min(size, self.cells.length)
        drawn   == {k \in 0..(written - 1) : sample[(k % Len(sample)) + 1]}
    IN  [self EXCEPT !.cells.ones = (@ \ (0..(written - 1))) \cup drawn,
                     !.status = IF written = size THEN "ok" ELSE "panicked"]

\* insert_glider_at_pos: the k-th of the nine writes, k = 1..9, in loop order
RECURSIVE glider_from(_, _, _, _)
glider_from(self, row, col, k) ==
    IF k > 9 \/ self.status # "ok" THEN self
    ELSE LET d_row    == <<self.height - 1, 0, 1>>[((k - 1) \div 3) + 1]
             d_col    == <<self.width - 1, 0, 1>>[((k - 1) % 3) + 1]
             cell_row == (d_row + row) % self.height
             cell_col == (d_col + col) % self.width
             idx      == get_index(self, cell_row, cell_col)
             is_alive == \/ (d_row = self.height - 1 /\ d_col = 0)
                         \/ (d_row = 0 /\ d_col = self.width - 1)
                         \/ d_row = 1
         IN  glider_from(cells_set(self, idx, is_alive), row, col, k + 1)

\* insert_glider_at_pos that writes only where is_alive holds
RECURSIVE glider_alive_only_from(_, _, _, _)
glider_alive_only_from(self, row, col, k) ==
    IF k > 9 \/ self.status # "ok" THEN self
    ELSE LET d_row    == <<self.height - 1, 0, 1>>[((k - 1) \div 3) + 1]
             d_col    == <<self.width - 1, 0, 1>>[((k - 1) % 3) + 1]
             cell_row == (d_row + row) % self.height
             cell_col == (d_col + col) % self.width
             idx      == get_index(self, cell_row, cell_col)
             is_alive == \/ (d_row = self.height - 1 /\ d_col = 0)
                         \/ (d_row = 0 /\ d_col = self.width - 1)
                         \/ d_row = 1
         IN  glider_alive_only_from(IF is_alive THEN cells_set(self, idx, TRUE) ELSE self,
                                    row, col, k + 1)

insert_glider_alive_only(self, row, col) == glider_alive_only_from(self, row, col, 1)

\* insert_glider_at_pos whose loops miss their first cell
insert_glider_skips_first(self, row, col) == glider_from(self, row, col, 2)

insert_glider_at_pos(self, row, col) == glider_from(self, row, col, 1)

hor_row == <<FALSE, FALSE, TRUE, TRUE, TRUE, FALSE, FALSE, FALSE, TRUE, TRUE, TRUE,
             FALSE, FALSE>>

ver_row == <<TRUE, FALSE, FALSE, FALSE, FALSE, TRUE, FALSE, TRUE, FALSE, FALSE, FALSE,
             FALSE, TRUE>>

empty_row == [i \in 1..13 |-> FALSE]

rows == <<hor_row, empty_row, ver_row, ver_row, ver_row, hor_row, empty_row, hor_row,
          ver_row, ver_row, ver_row, empty_row, hor_row>>

\* 2^32 modulo h
U32Mod(h) == ((HALF32 % h) * (HALF32 % h)) % h

\* (d_row as u32 + self.height - 6) % self.height: below 6 the subtraction
\* overflows; a build with overflow checks panics there (-1), one without wraps
\* modulo 2^32
pulsar_row_delta(self, d_row, overflow_checks) ==
    LET t == d_row + self.height - 6
    IN  IF t >= 0 THEN t % self.height
        ELSE IF overflow_checks THEN -1
        ELSE (U32Mod(self.height) + t + 6 * self.height) % self.height

\* the 13 writes of template row d_row, self.cells.set(row_idx + idx - 6, _) for
\* idx = 0..12 in order: row_idx + idx - 6 below 0 panics in every build (with
\* overflow checks at the subtraction, without them at set(), the wrapped index
\* being beyond any length), and so does an index that is not below the length;
\* the writes before the panic stay
pulsar_row(self, row_idx, row_cells) ==
    LET first   == row_idx - 6
        written == IF first < 0 THEN 0
                   ELSE IF first >= self.cells.length THEN 0
                   ELSE Min(13, self.cells.length - first)
        touched == {first + idx : idx \in 0..(written - 1)}
        alive   == {first + idx : idx \in {i \in 0..(written - 1) : row_cells[i + 1]}}
    IN  [self EXCEPT !.cells.ones = (@ \ touched) \cup alive,
                     !.status = IF written = 13 THEN "ok" ELSE "panicked"]

\* insert_pulsar_at_pos: the template rows from d_row on, in loop order
RECURSIVE pulsar_from(_, _, _, _, _)
pulsar_from(self, row, col, d_row, overflow_checks) ==
    IF d_row > 12 \/ self.status # "ok" THEN self
    ELSE LET delta    == pulsar_row_delta(self, d_row, overflow_checks)
             cell_row == (delta + row) % self.height
             row_idx  == get_row_index(self, cell_row) + col
             after    == IF delta < 0 THEN [self EXCEPT !.status = "panicked"]
                         ELSE pulsar_row(self, row_idx, rows[d_row + 1])
         IN  pulsar_from(after, row, col, d_row + 1, overflow_checks)

insert_pulsar_at_pos(self, row, col, overflow_checks) ==
    pulsar_from(self, row, col, 0, overflow_checks)

\* render(): Display writes one glyph per word of as_slice(), a line break after
\* every chunk of width words
render(self) ==
    LET words  == as_slice(self.cells)
        n      == Len(words)
        nlines == (n + self.width - 1) \div self.width
        line(j) == [c \in 1..(Min(j * self.width, n) - (j - 1) * self.width) |->
                       IF words[(j - 1) * self.width + c] = 0 THEN "Dead glyph"
                       ELSE "Alive glyph"]
    IN  [j \in 1..nlines |-> line(j) \o <<"\n">>]

(***************************************************************************)
(* The driver: one action per public operation.                            *)
(***************************************************************************)
Dims == (1..MaxDim) \cup {DefaultHeight + 1}

Small == width * height <= MaxCells

Becomes(u) ==
    /\ width' = u.width
    /\ height' = u.height
    /\ cells' = u.cells
    /\ temp_cells' = u.temp_cells
    /\ status' = u.status

Init ==
    /\ width = new.width
    /\ height = new.height
    /\ cells = new.cells
    /\ temp_cells = new.temp_cells
    /\ status = new.status
    /\ lastop = <<"new", 0, 0>>
    /\ stamp = <<>>
    /\ ticks = 0

Tick ==
    /\ status = "ok"
    /\ ticks < MaxTicks
    /\ Becomes(tick(Self))
    /\ lastop' = <<"tick", 0, 0>>
    /\ ticks' = ticks + 1
    /\ UNCHANGED stamp

SetWidth ==
    /\ status = "ok"
    /\ \E w \in Dims :
        /\ Becomes(set_width(Self, w))
        /\ lastop' = <<"set_width", w, 0>>
    /\ ticks' = 0
    /\ UNCHANGED stamp

SetHeight ==
    /\ status = "ok"
    /\ \E h \in Dims :
        /\ Becomes(set_height(Self, h))
        /\ lastop' = <<"set_height", h, 0>>
    /\ ticks' = 0
    /\ UNCHANGED stamp

\* the coordinates the driver passes: every cell of the grid, and the two nearest
\* violations of row < height, col < width
Coordinates == ((0..(height - 1)) \X (0..(width - 1))) \cup {<<height, 0>>, <<0, width>>}

RECURSIVE ListsUpTo(_)
ListsUpTo(n) ==
    IF n = 0 THEN {<<>>}
    ELSE LET shorter == ListsUpTo(n - 1)
         IN  shorter \cup {Append(l, p) : l \in {x \in shorter : Len(x) = n - 1},
                                          p \in Coordinates}

ToggleCell ==
    /\ status = "ok"
    /\ Small
    /\ \E p \in Coordinates :
        /\ Becomes(toggle_cell(Self, p[1], p[2]))
        /\ lastop' = <<"toggle_cell", 0, 0>>
    /\ ticks' = 0
    /\ UNCHANGED stamp

SetCells ==
    /\ status = "ok"
    /\ Small
    /\ \E list \in ListsUpTo(MaxList) : Becomes(set_cells(Self, list))
    /\ lastop' = <<"set_cells", 0, 0>>
    /\ ticks' = 0
    /\ UNCHANGED stamp

ResetClear ==
    /\ status = "ok"
    /\ Becomes(reset_clear(Self))
    /\ lastop' = <<"reset_clear", 0, 0>>
    /\ ticks' = 0
    /\ UNCHANGED stamp

ResetRandom ==
    /\ status = "ok"
    /\ Small
    /\ \E sample \in [1..RandomPeriod -> BOOLEAN] : Becomes(reset_random(Self, sample))
    /\ lastop' = <<"reset_random", 0, 0>>
    /\ ticks' = 0
    /\ UNCHANGED stamp

InsertGlider ==
    /\ status = "ok"
    /\ Small
    /\ \E p \in Coordinates :
        /\ Becomes(insert_glider_at_pos(Self, p[1], p[2]))
        /\ lastop' = <<"insert_glider_at_pos", p[1], p[2]>>
    /\ ticks' = 0
    /\ UNCHANGED stamp

InsertPulsar ==
    /\ status = "ok"
    /\ Small
    /\ \E p \in Coordinates, overflow_checks \in BOOLEAN :
        /\ Becomes(insert_pulsar_at_pos(Self, p[1], p[2], overflow_checks))
        /\ lastop' = <<"insert_pulsar_at_pos", p[1], p[2]>>
    /\ ticks' = 0
    /\ UNCHANGED stamp

Next ==
    \/ Tick \/ SetWidth \/ SetHeight
    \/ ToggleCell \/ SetCells \/ ResetClear \/ ResetRandom
    \/ InsertGlider \/ InsertPulsar

Spec == Init /\ [][Next]_vars

(***************************************************************************)
(* A glider followed on a GliderDim x GliderDim grid: the grid is resized  *)
(* from new(), left empty or filled by reset_random, stamped once, ticked. *)
(***************************************************************************)
GliderGrid == set_height(set_width(new, GliderDim), GliderDim)

GliderInit ==
    /\ \E sample \in [1..RandomPeriod -> BOOLEAN] :
        LET u == reset_random(GliderGrid, sample)
        IN  /\ width = u.width
            /\ height = u.height
            /\ cells = u.cells
            /\ temp_cells = u.temp_cells
            /\ status = u.status
    /\ lastop = <<"reset_random", 0, 0>>
    /\ stamp = <<>>
    /\ ticks = 0

StampGlider ==
    /\ status = "ok"
    /\ stamp = <<>>
    /\ \E p \in Coordinates :
        LET u == insert_glider_at_pos(Self, p[1], p[2])
        IN  /\ Becomes(u)
            /\ lastop' = <<"insert_glider_at_pos", p[1], p[2]>>
            /\ stamp' = <<[before |-> cells.ones, after |-> u.cells.ones,
                            row |-> p[1], col |-> p[2]]>>
    /\ ticks' = 0

GliderNext == StampGlider \/ Tick

SpecGlider == GliderInit /\ [][GliderNext]_vars

(***************************************************************************)
(* A pulsar followed on a PulsarDim x PulsarDim grid, in the same way.     *)
(***************************************************************************)
PulsarGrid == set_height(set_width(new, PulsarDim), PulsarDim)

PulsarInit ==
    /\ \E sample \in [1..RandomPeriod -> BOOLEAN] :
        LET u == reset_random(PulsarGrid, sample)
        IN  /\ width = u.width
            /\ height = u.height
            /\ cells = u.cells
            /\ temp_cells = u.temp_cells
            /\ status = u.status
    /\ lastop = <<"reset_random", 0, 0>>
    /\ stamp = <<>>
    /\ ticks = 0

StampPulsar ==
    /\ status = "ok"
    /\ stamp = <<>>
    /\ \E p \in Coordinates, overflow_checks \in BOOLEAN :
        LET u == insert_pulsar_at_pos(Self, p[1], p[2], overflow_checks)
        IN  /\ Becomes(u)
            /\ lastop' = <<"insert_pulsar_at_pos", p[1], p[2]>>
            /\ stamp' = <<[before |-> cells.ones, after |-> u.cells.ones,
                            row |-> p[1], col |-> p[2]]>>
    /\ ticks' = 0

PulsarNext == StampPulsar \/ Tick

SpecPulsar == PulsarInit /\ [][PulsarNext]_vars

(***************************************************************************)
(* A single cell followed on every grid of at most SingleDim x SingleDim:  *)
(* the grid is resized from new(), one cell of it is toggled, it is ticked.*)
(***************************************************************************)
SingleInit ==
    /\ \E w \in 1..SingleDim, h \in 1..SingleDim :
        LET u == set_height(set_width(new, w), h)
        IN  /\ width = u.width
            /\ height = u.height
            /\ cells = u.cells
            /\ temp_cells = u.temp_cells
            /\ status = u.status
            /\ lastop = <<"set_height", h, 0>>
    /\ stamp = <<>>
    /\ ticks = 0

ToggleFirst ==
    /\ status = "ok"
    /\ lastop[1] = "set_height"
    /\ \E p \in Coordinates :
        /\ Becomes(toggle_cell(Self, p[1], p[2]))
        /\ lastop' = <<"toggle_cell", 0, 0>>
    /\ ticks' = 0
    /\ UNCHANGED stamp

SingleNext == ToggleFirst \/ Tick

SpecSingle == SingleInit /\ [][SingleNext]_vars

(***************************************************************************)
(* Cell patterns followed on every grid of 4..PatternDim by 4..PatternDim: *)
(* the grid is resized from new(), one list of cells (a line of three, a   *)
(* block of four) is set by set_cells, it is ticked.                       *)
(***************************************************************************)
PatternInit ==
    /\ \E w \in 4..PatternDim, h \in 4..PatternDim :
        LET u == set_height(set_width(new, w), h)
        IN  /\ width = u.width
            /\ height = u.height
            /\ cells = u.cells
            /\ temp_cells = u.temp_cells
            /\ status = u.status
            /\ lastop = <<"set_height", h, 0>>
    /\ stamp = <<>>
    /\ ticks = 0

\* the lists the driver passes to set_cells, all of in-range coordinates: the
\* horizontal and the vertical lines of three cells and the 2x2 blocks
PatternLists ==
    {<<<<r, c>>, <<r, c + 1>>, <<r, c + 2>>>> :
        r \in 0..(height - 1), c \in 0..(width - 3)}
    \cup {<<<<r, c>>, <<r + 1, c>>, <<r + 2, c>>>> :
        r \in 0..(height - 3), c \in 0..(width - 1)}
    \cup {<<<<r, c>>, <<r, c + 1>>, <<r + 1, c>>, <<r + 1, c + 1>>>> :
        r \in 0..(height - 2), c \in 0..(width - 2)}

PlaceCells ==
    /\ status = "ok"
    /\ stamp = <<>>
    /\ \E list \in PatternLists :
        LET u == set_cells(Self, list)
        IN  /\ Becomes(u)
            /\ stamp' = <<[before |-> cells.ones, after |-> u.cells.ones,
                            row |-> list[1][1], col |-> list[1][2]]>>
    /\ lastop' = <<"set_cells", 0, 0>>
    /\ ticks' = 0

PatternNext == PlaceCells \/ Tick

SpecPattern == PatternInit /\ [][PatternNext]_vars

(***************************************************************************)
(* What the claims speak of, stated without the code's operators.          *)
(***************************************************************************)
InRange(row, col) == row \in 0..(height - 1) /\ col \in 0..(width - 1)

\* the cell (row, col) of the grid, read from a set of flat indices
AliveAt(ones, row, col) == (row * width + col) \in ones

Offsets == {d \in (-1..1) \X (-1..1) : d # <<0, 0>>}

\* the toroidal neighbour of (row, col) at offset d
Wrapped(row, col, d) == <<(row + d[1] + height) % height, (col + d[2] + width) % width>>

\* the number of the eight toroidal neighbours of (row, col) that are alive
AliveNeighbours(ones, row, col) ==
    Cardinality({d \in Offsets :
        AliveAt(ones, Wrapped(row, col, d)[1], Wrapped(row, col, d)[2])})

\* Conway's rule
LifeRule(alive, n) == IF alive THEN n \in {2, 3} ELSE n = 3

\* a set of flat indices moved by (dr, dc) on the torus
Translated(ones, dr, dc) ==
    {(((i \div width) + dr) % height) * width + (((i % width) + dc) % width) : i \in ones}

\* the 3x3 toroidal block around (row, col), as flat indices
Block3(row, col) ==
    {((row + dr + height) % height) * width + ((col + dc + width) % width) :
        dr \in -1..1, dc \in -1..1}

Mutating == {"toggle_cell", "set_cells", "insert_glider_at_pos", "insert_pulsar_at_pos"}

(***************************************************************************)
(* The claims.                                                             *)
(***************************************************************************)

\* C1: in every reachable state the length of cells equals the length of
\* temp_cells and both equal width*height.
C1_BuffersHaveGridSize ==
    /\ cells.length = temp_cells.length
    /\ cells.length = width * height

\* C2: after a tick() that completed, every cell (row, col) of the grid holds
\* Conway's rule applied to its value before the tick and to the number of its
\* eight toroidal neighbours that were alive before the tick.
C2_TickAppliesRule ==
    [][(lastop'[1] = "tick" /\ status' = "ok") =>
        \A idx \in 0..(width * height - 1) :
            bit(cells', idx) =
                LifeRule(AliveAt(cells.ones, idx \div width, idx % width),
                         AliveNeighbours(cells.ones, idx \div width, idx % width))]_vars

\* C2 witness: a tick() has completed on a grid whose two buffers both had
\* length width*height, and it left cells alive.
C2_TickedFullGrid ==
    /\ lastop[1] = "tick"
    /\ status = "ok"
    /\ ticks = 1
    /\ cells.length = width * height
    /\ temp_cells.length = width * height
    /\ cells.ones # {}

\* C3: a tick() called in a reachable state runs to completion without fault.
C3_TickCompletes == lastop[1] = "tick" => status = "ok"

\* C4: the pattern stamps are total over in-range anchors: a stamp called with
\* row < height and col < width writes only indices below width*height and
\* does not fault.
C4_StampsTotalInRange ==
    (lastop[1] \in {"insert_glider_at_pos", "insert_pulsar_at_pos"}
        /\ InRange(lastop[2], lastop[3]))
    => (status = "ok" /\ cells.ones \subseteq 0..(width * height - 1))

\* the state four tick() calls after a glider was stamped at an in-range anchor
\* of an all-Dead grid
FourTicksAfterGlider ==
    /\ stamp # <<>>
    /\ stamp[1].before = {}
    /\ InRange(stamp[1].row, stamp[1].col)
    /\ ticks = 4
    /\ status = "ok"

\* C5 (as claimed): four tick() calls after a glider was stamped on an all-Dead
\* grid, the Alive cells are those right after the stamp moved by (+1 row,
\* +1 column) on the torus.
C5_GliderMovesDownRight ==
    FourTicksAfterGlider => cells.ones = Translated(stamp[1].after, 1, 1)

\* C5 (amended): four tick() calls after a glider was stamped on an all-Dead
\* grid, the Alive cells are those right after the stamp moved by (+1 row,
\* -1 column) on the torus.
C5_GliderMovesDownLeft ==
    FourTicksAfterGlider => cells.ones = Translated(stamp[1].after, 1, width - 1)

\* C5 witness: a glider of five cells, four ticks after its stamp on the empty grid
C5_GliderAfterFourTicks ==
    /\ FourTicksAfterGlider
    /\ Cardinality(stamp[1].after) = 5
    /\ Cardinality(cells.ones) = 5

\* the state right after insert_glider_at_pos(row, col) with an in-range anchor
\* on a grid of at least 3x3
GliderJustStamped ==
    /\ lastop[1] = "insert_glider_at_pos"
    /\ InRange(lastop[2], lastop[3])
    /\ width >= 3
    /\ height >= 3
    /\ status = "ok"

\* C6 (as claimed): after insert_glider_at_pos(row, col) on a grid of at least
\* 3x3, exactly 3 of the 9 cells of the 3x3 toroidal block around the anchor
\* are Alive.
C6_GliderHasThreeCells ==
    GliderJustStamped =>
        Cardinality(Block3(lastop[2], lastop[3]) \cap cells.ones) = 3

\* C6 (amended): after insert_glider_at_pos(row, col) on a grid of at least
\* 3x3, exactly 5 of the 9 cells of the 3x3 toroidal block around the anchor
\* are Alive.
C6_GliderHasFiveCells ==
    GliderJustStamped =>
        Cardinality(Block3(lastop[2], lastop[3]) \cap cells.ones) = 5

\* C6 witness: a glider stamped over a grid that held Alive cells, its anchor
\* on the last row, so that the block wraps
C6_GliderStampedOnEdge ==
    /\ GliderJustStamped
    /\ lastop[2] = height - 1
    /\ stamp # <<>>
    /\ stamp[1].before # {}

\* C7: right after set_width(w) or set_height(h), cells has length
\* width*height, every cell is Dead and get_cells() is width*height Dead tags;
\* right after new(), cells has length width*height.
C7_ResizeClears ==
    /\ (lastop[1] \in {"set_width", "set_height"}) =>
        /\ cells.length = width * height
        /\ \A idx \in 0..(cells.length - 1) : ~bit(cells, idx)
        /\ get_cells(Self) = [k \in 1..(width * height) |-> "Dead"]
    /\ lastop[1] = "set_width" => width = lastop[2]
    /\ lastop[1] = "set_height" => height = lastop[2]
    /\ lastop[1] = "new" => cells.length = width * height

\* C7 witness: a grid just resized to a width other than the one new() gives
C7_JustResized ==
    /\ lastop[1] = "set_width"
    /\ width # DefaultWidth
    /\ height # DefaultHeight
    /\ status = "ok"

\* C8: render() is height lines, line r being the width glyphs of the cells
\* (r, 0..width-1), Alive glyph for an Alive cell, followed by a line break.
C8_RenderIsOneGlyphPerCell ==
    LET text == render(Self)
    IN  /\ Len(text) = height
        /\ \A r \in 1..height :
            text[r] = [c \in 1..width |->
                          IF AliveAt(cells.ones, r - 1, c - 1) THEN "Alive glyph"
                          ELSE "Dead glyph"] \o <<"\n">>

\* C9: a mutating operation that faults leaves the grid as it was before the
\* call.
C9_FaultingCallChangesNothing ==
    [][(lastop'[1] \in Mutating /\ status' = "panicked") => cells' = cells]_vars

\* the grid is all Dead except the cell (r, c)
OnlyAlive(r, c) == cells.ones = {r * width + c}

\* what C10 says of a grid whose only Alive cell is (r, c)
CountsAroundSingleCell(r, c) ==
    /\ \A d \in Offsets :
        live_neighbor_count(Self, Wrapped(r, c, d)[1], Wrapped(r, c, d)[2]) = 1
    /\ live_neighbor_count(Self, r, c) = 0

CountInRange ==
    \A r \in 0..(height - 1), c \in 0..(width - 1) :
        live_neighbor_count(Self, r, c) \in 0..8

\* C10 (as claimed): on every grid with width > 0 and height > 0 whose only
\* Alive cell is (r, c), live_neighbor_count is 1 at the eight toroidal
\* neighbours of (r, c) and 0 at (r, c); every count is in 0..8.
C10_SingleCellCountsAnySize ==
    /\ \A r \in 0..(height - 1), c \in 0..(width - 1) :
        OnlyAlive(r, c) => CountsAroundSingleCell(r, c)
    /\ CountInRange

\* C10 (amended): the same on every grid with width >= 3 and height >= 3.
C10_SingleCellCountsFrom3x3 ==
    /\ (width >= 3 /\ height >= 3) =>
        \A r \in 0..(height - 1), c \in 0..(width - 1) :
            OnlyAlive(r, c) => CountsAroundSingleCell(r, c)
    /\ CountInRange

\* C10 witness: a grid of at least 3x3 with a single Alive cell, in a corner
C10_SingleCellInCorner ==
    /\ width >= 3
    /\ height >= 3
    /\ OnlyAlive(height - 1, width - 1)
    /\ status = "ok"

Abs(x) == IF x < 0 THEN 0 - x ELSE x

\* the canonical pulsar, as offsets (d_row, d_col) from its centre
PulsarTemplate ==
    {d \in (-6..6) \X (-6..6) :
        \/ Abs(d[1]) \in {1, 6} /\ Abs(d[2]) \in {2, 3, 4}
        \/ Abs(d[2]) \in {1, 6} /\ Abs(d[1]) \in {2, 3, 4}}

\* the flat index of the cell at offset d from (row, col) on the torus
TorusIndex(row, col, d) ==
    ((row + d[1] + height) % height) * width + ((col + d[2] + width) % width)

\* the 13x13 toroidal block around (row, col), as flat indices
Block13(row, col) == {TorusIndex(row, col, d) : d \in (-6..6) \X (-6..6)}

\* the Alive cells of a pulsar centred at (row, col) on the torus
PulsarAt(row, col) == {TorusIndex(row, col, d) : d \in PulsarTemplate}

\* the state right after insert_pulsar_at_pos(row, col) with an in-range anchor
\* on a grid of at least 13x13
PulsarJustStamped ==
    /\ lastop[1] = "insert_pulsar_at_pos"
    /\ InRange(lastop[2], lastop[3])
    /\ width >= 13
    /\ height >= 13
    /\ stamp # <<>>

\* C11: insert_pulsar_at_pos(row, col) with an in-range anchor on a grid of at
\* least 13x13 completes, gives the cells of the 13x13 toroidal block around
\* the anchor the values of the pulsar template, whatever they held, and
\* leaves every cell outside the block as it was.
C11_PulsarWritesToroidalBlock ==
    PulsarJustStamped =>
        /\ status = "ok"
        /\ cells.ones = (stamp[1].before \ Block13(lastop[2], lastop[3]))
                            \cup PulsarAt(lastop[2], lastop[3])

\* a pulsar was stamped on an all-Dead grid of at least 17x17, its anchor at
\* least 8 cells from every edge
PulsarStampedInside ==
    /\ stamp # <<>>
    /\ stamp[1].before = {}
    /\ width >= 17
    /\ height >= 17
    /\ stamp[1].row \in 8..(height - 9)
    /\ stamp[1].col \in 8..(width - 9)

\* C12: a pulsar stamped on an all-Dead grid of at least 17x17 with its anchor
\* at least 8 cells from every edge oscillates in place with period exactly 3:
\* the stamp and the tick() calls complete, the grid after three tick() calls
\* equals the grid right after the stamp, and the grids after one and after
\* two tick() calls differ from it.
C12_PulsarHasPeriodThree ==
    PulsarStampedInside =>
        /\ status = "ok"
        /\ ticks = 3 => cells.ones = stamp[1].after
        /\ ticks \in {1, 2} => cells.ones # stamp[1].after

\* C12 witness: the 48 cells of the pulsar, three ticks after its stamp
C12_PulsarAfterThreeTicks ==
    /\ PulsarStampedInside
    /\ ticks = 3
    /\ status = "ok"
    /\ Cardinality(stamp[1].after) = 48
    /\ Cardinality(cells.ones) = 48

\* the Alive cells of the glider stamp, as offsets (d_row, d_col) from the anchor
GliderTemplate == {<<-1, 0>>, <<0, -1>>, <<1, -1>>, <<1, 0>>, <<1, 1>>}

\* the grid that a glider stamp at (row, col) makes of the grid whose Alive
\* cells are ones: the template inside the 3x3 toroidal block, ones outside it
GliderOver(ones, row, col) ==
    (ones \ Block3(row, col)) \cup {TorusIndex(row, col, d) : d \in GliderTemplate}

\* the anchors at which the claims about one call apply it to the current grid:
\* every cell of a grid of at most PulsarDim x PulsarDim cells, and the corners
\* and the centre of a larger one
Anchors ==
    IF width * height <= PulsarDim * PulsarDim
    THEN (0..(height - 1)) \X (0..(width - 1))
    ELSE {0, height \div 2, height - 1} \X {0, width \div 2, width - 1}

\* C13: on a grid with width >= 3 and height >= 3, whatever it holds,
\* insert_glider_at_pos(row, col) with an in-range anchor completes, gives each
\* of the 9 cells of the 3x3 toroidal block around the anchor the value the
\* template has at its offset, and leaves every other cell, width and height
\* unchanged.
C13_GliderOverwritesBlockOnly ==
    (width >= 3 /\ height >= 3 /\ status = "ok") =>
        \A p \in Anchors :
            LET u == insert_glider_at_pos(Self, p[1], p[2])
            IN  /\ u.status = "ok"
                /\ u.width = width
                /\ u.height = height
                /\ u.cells.length = cells.length
                /\ u.cells.ones = GliderOver(cells.ones, p[1], p[2])

\* C13 witness: a glider just stamped at the corner (0, 0) of a 3x3 grid, the
\* five cells of the template Alive and the four others Dead
C13_GliderStampedInCorner ==
    /\ lastop = <<"insert_glider_at_pos", 0, 0>>
    /\ status = "ok"
    /\ width = 3
    /\ height = 3
    /\ Cardinality(cells.ones) = 5
    /\ cells.ones = GliderOver({}, 0, 0)

\* the lists of at most n elements of S
RECURSIVE ListsOver(_, _)
ListsOver(S, n) ==
    IF n = 0 THEN {<<>>}
    ELSE LET shorter == ListsOver(S, n - 1)
         IN  shorter \cup {Append(l, p) : l \in {x \in shorter : Len(x) = n - 1}, p \in S}

\* the in-range coordinates from which the claims about set_cells draw their
\* lists: three corners and the centre of the grid
ListCells ==
    {<<0, 0>>, <<0, width - 1>>, <<height \div 2, width \div 2>>,
     <<height - 1, width - 1>>}

\* the flat indices of the coordinates of a list
Listed(L) == {L[i][1] * width + L[i][2] : i \in 1..Len(L)}

\* the permutations of 1..n, as functions
Reorderings(n) == {f \in [1..n -> 1..n] : \A i, j \in 1..n : f[i] = f[j] => i = j}

\* C14: whatever the grid holds, set_cells(L) with a list L of in-range
\* coordinates completes and leaves Alive exactly the cells that were Alive
\* before the call or are listed in L; width and height are unchanged.
C14_SetCellsAddsListed ==
    status = "ok" =>
        \A L \in ListsOver(ListCells, MaxList) :
            LET u == set_cells(Self, L)
            IN  /\ u.status = "ok"
                /\ u.width = width
                /\ u.height = height
                /\ u.cells.length = cells.length
                /\ u.cells.ones = cells.ones \cup Listed(L)

\* C14 witness: set_cells has just set a block of four cells that covers the
\* centre of an all-Dead grid: a list with the centre and a corner would find
\* one of its cells Alive and the other Dead
C14_BlockJustSet ==
    /\ lastop[1] = "set_cells"
    /\ status = "ok"
    /\ stamp # <<>>
    /\ stamp[1].before = {}
    /\ Cardinality(cells.ones) = 4
    /\ (height \div 2) * width + (width \div 2) \in cells.ones
    /\ 0 \notin cells.ones

\* C15: whatever the grid holds, for every list L of in-range coordinates,
\* set_cells(L) applied twice gives the grid that set_cells(L) applied once
\* gives, and so does set_cells applied to any permutation of L.
C15_SetCellsIdempotentAnyOrder ==
    status = "ok" =>
        \A L \in ListsOver(ListCells, MaxList) :
            LET once == set_cells(Self, L)
            IN  /\ set_cells(once, L) = once
                /\ \A f \in Reorderings(Len(L)) :
                    set_cells(Self, [i \in 1..Len(L) |-> L[f[i]]]) = once

\* C15 witness: set_cells has just set a line of three cells through the
\* centre of an all-Dead grid of 5 columns, the corners still Dead
C15_LineJustSet ==
    /\ lastop[1] = "set_cells"
    /\ status = "ok"
    /\ stamp # <<>>
    /\ Cardinality(cells.ones) = 3
    /\ (height \div 2) * width + (width \div 2) \in cells.ones
    /\ width = 5
    /\ 0 \notin cells.ones

\* the flat indices of a set of coordinates (row, col)
CellsOf(S) == {p[1] * width + p[2] : p \in S}

\* a 5x5 grid that was all Dead was given the horizontal blinker at row 2,
\* columns 1..3, and has only been ticked since
BlinkerSet ==
    /\ width = 5
    /\ height = 5
    /\ stamp # <<>>
    /\ stamp[1].before = {}
    /\ stamp[1].after = CellsOf({<<2, 1>>, <<2, 2>>, <<2, 3>>})

\* C16: on a 5x5 grid that is all Dead except the horizontal blinker at row 2,
\* columns 1..3, the tick() calls complete; after one tick() the Alive cells
\* are exactly (1,2), (2,2), (3,2) and after a second tick() they are exactly
\* (2,1), (2,2), (2,3) again.
C16_BlinkerHasPeriodTwo ==
    BlinkerSet =>
        /\ status = "ok"
        /\ ticks = 1 => cells.ones = CellsOf({<<1, 2>>, <<2, 2>>, <<3, 2>>})
        /\ ticks = 2 => cells.ones = CellsOf({<<2, 1>>, <<2, 2>>, <<2, 3>>})

\* C16 witness: the blinker two ticks after it was set
C16_BlinkerAfterTwoTicks ==
    /\ BlinkerSet
    /\ ticks = 2
    /\ lastop[1] = "tick"
    /\ status = "ok"
    /\ Cardinality(cells.ones) = 3

\* a 4x4 grid that was all Dead was given the 2x2 block at rows 1..2, columns
\* 1..2, and has only been ticked since
BlockSet ==
    /\ width = 4
    /\ height = 4
    /\ stamp # <<>>
    /\ stamp[1].before = {}
    /\ stamp[1].after = CellsOf({1, 2} \X {1, 2})

\* C17: on a 4x4 grid that is all Dead except the 2x2 block at rows 1..2,
\* columns 1..2, live_neighbor_count is 3 at every cell of the block and
\* differs from 3 at every Dead cell, and the grid after tick() is the grid
\* before it.
C17_BlockIsStillLife ==
    BlockSet =>
        /\ status = "ok"
        /\ cells.ones = stamp[1].after
        /\ \A r \in 0..(height - 1), c \in 0..(width - 1) :
            (live_neighbor_count(Self, r, c) = 3) <=> (<<r, c>> \in {1, 2} \X {1, 2})

\* C17 witness: the block one tick after it was set
C17_BlockAfterOneTick ==
    /\ BlockSet
    /\ ticks = 1
    /\ lastop[1] = "tick"
    /\ status = "ok"
    /\ Cardinality(cells.ones) = 4

\* width*height tags, all Dead
AllDead == [k \in 1..(width * height) |-> "Dead"]

\* C18: in every reachable state reset_clear() completes and leaves width and
\* height unchanged, and get_cells() then returns exactly width*height tags,
\* all Dead; so it does in the state a reset_clear() call has just left.
C18_ResetClearGivesAllDead ==
    status = "ok" =>
        /\ LET u == reset_clear(Self)
           IN  /\ u.status = "ok"
               /\ u.width = width
               /\ u.height = height
               /\ Len(get_cells(u)) = width * height
               /\ get_cells(u) = AllDead
        /\ lastop[1] = "reset_clear" => get_cells(Self) = AllDead

\* C18 witness: reset_clear() has just cleared the 256x256 grid of new(),
\* which held Alive cells
C18_SeedJustCleared ==
    /\ lastop[1] = "reset_clear"
    /\ status = "ok"
    /\ width = 256
    /\ height = 256
    /\ cells.length = 65536
    /\ cells.ones = {}

\* C19: right after new(), width = 256, height = 256, the grid has 65536
\* cells, cell i is Alive iff i % 2 = 0 or i % 7 = 0, and a second
\* construction yields the same universe.
C19_NewIsSeeded ==
    lastop[1] = "new" =>
        /\ status = "ok"
        /\ width = 256
        /\ height = 256
        /\ cells.length = 65536
        /\ \A i \in 0..65535 : bit(cells, i) <=> (i % 2 = 0 \/ i % 7 = 0)
        /\ cells.ones \subseteq 0..65535
        /\ Len(get_cells(Self)) = 65536
        /\ new = Self

\* C19 witness: the universe new() has just made: cell 0 and cell 7 Alive,
\* cell 1 Dead
C19_JustConstructed ==
    /\ lastop[1] = "new"
    /\ status = "ok"
    /\ bit(cells, 0)
    /\ bit(cells, 7)
    /\ ~bit(cells, 1)

\* C20: whatever the grid holds, toggle_cell(row, col) with an in-range (row,
\* col) completes, inverts the cell at flat index row*width + col and leaves
\* every other cell, width and height unchanged; a second toggle_cell(row,
\* col) restores the universe exactly.
C20_ToggleInvertsOneCell ==
    status = "ok" =>
        \A p \in Anchors :
            LET idx == p[1] * width + p[2]
                u   == toggle_cell(Self, p[1], p[2])
            IN  /\ u.status = "ok"
                /\ u.width = width
                /\ u.height = height
                /\ u.cells.length = cells.length
                /\ u.cells.ones = IF idx \in cells.ones THEN cells.ones \ {idx}
                                  ELSE cells.ones \cup {idx}
                /\ toggle_cell(u, p[1], p[2]) = Self

\* C20 witness: toggle_cell has just left the centre of a 3x3 grid as its only
\* Alive cell
C20_CentreJustToggled ==
    /\ lastop[1] = "toggle_cell"
    /\ status = "ok"
    /\ width = 3
    /\ height = 3
    /\ cells.ones = {1 * width + 1}

====
